---- MODULE Spec2Model ----
(***************************************************************************)
(* Model of the oside-tests harness (src/src/main.rs, fn main).            *)
(*                                                                         *)
(* One invocation is a record: its position in main (pc), the options in   *)
(* force, the locals of main that are alive, what it wrote to stdout and   *)
(* stderr, and the log of the stages it executed.  `run` is the invocation *)
(* under study; `twin` is a second invocation that receives the very same  *)
(* inputs at every step and differs only in the verbosity given on the     *)
(* command line.                                                           *)
(***************************************************************************)
EXTENDS Integers, Sequences, FiniteSets, TLC

VARIABLES run, twin

vars == <<run, twin>>

----------------------------------------------------------------------------
(* Bounds of the model *)

MaxVerbose == 1
MaxLayers == 2

----------------------------------------------------------------------------
(* Option<T>: None is the empty sequence, Some(v) the one-element sequence *)

None == <<>>
Some(v) == <<v>>
IsSome(o) == Len(o) = 1
Get(o) == o[1]

----------------------------------------------------------------------------
(* struct Opts *)

Exprs == {"Ether()/IP()/UDP()", "Ether()"}
OverrideFile == "opts.yaml"
OptNames == {"scapy_expr", "options_override", "print_json", "verify_json", "verbose"}

Opts == [scapy_expr : Exprs,
         options_override : {None, Some(OverrideFile)},
         print_json : BOOLEAN,
         verify_json : BOOLEAN,
         verbose : 0..MaxVerbose]

----------------------------------------------------------------------------
(* The override document: the text of the file named by options_override. *)
(* A text has a syntax (JSON text is YAML text as well) and the members   *)
(* it spells out; "garbage" is text that neither parser accepts.          *)

Restrict(f, S) == [k \in S |-> f[k]]

DocKeySets == {OptNames, OptNames \ {"options_override"}, {"print_json"}}

Docs == {[syntax |-> sx, fields |-> Restrict(o, ks)] :
            sx \in {"json", "yaml"}, o \in Opts, ks \in DocKeySets}
        \cup {[syntax |-> "garbage", fields |-> Restrict(o, {})] : o \in Opts}

(* #[derive(Deserialize)] on Opts: every field is required, except the    *)
(* Option field, which a missing key leaves at None.                      *)
RequiredOpts == {"scapy_expr", "print_json", "verify_json", "verbose"}

DeserializeOpts(fields) ==
    IF RequiredOpts \subseteq DOMAIN fields
    THEN Some([scapy_expr |-> fields["scapy_expr"],
               options_override |-> IF "options_override" \in DOMAIN fields
                                    THEN fields["options_override"]
                                    ELSE None,
               print_json |-> fields["print_json"],
               verify_json |-> fields["verify_json"],
               verbose |-> fields["verbose"]])
    ELSE None

serde_json_from_str_Opts(data) ==
    IF data.syntax = "json" THEN DeserializeOpts(data.fields) ELSE None

serde_yaml_from_str_Opts(data) ==
    IF data.syntax \in {"json", "yaml"} THEN DeserializeOpts(data.fields) ELSE None

----------------------------------------------------------------------------
(* Bytes produced by the evaluation, and the layer stacks the codec may   *)
(* return for them.                                                       *)

RawBytes == {<<>>, <<0>>}

LayerNames == <<"Ether", "IP", "UDP", "Raw">>

FieldValues == {0, 1}

Layer(i, v) == [name |-> LayerNames[i], val |-> v]

(* stacks of up to MaxLayers layers; the innermost layer takes every value *)
LayerStacks ==
    {[i \in 1..n |-> Layer(i, IF i = n THEN v ELSE 0)] :
        n \in 1..MaxLayers, v \in FieldValues}

----------------------------------------------------------------------------
(* JSON text.  A text is either an array of objects, each object being    *)
(* the sequence of its members <<key, token>> in the order written, or    *)
(* something else (empty text, text that is not JSON).  `trailing` says   *)
(* that more text follows the first document.                             *)

Digits == <<"0", "1", "2", "3", "4", "5", "6", "7", "8", "9">>

NumTok(lit) == [t |-> "num", lit |-> lit]
StrTok(lit) == [t |-> "str", lit |-> lit]

ArrayText(items) == [kind |-> "array", items |-> items, trailing |-> FALSE]
EmptyText == [kind |-> "empty", items |-> <<>>, trailing |-> FALSE]
GarbageText == [kind |-> "garbage", items |-> <<>>, trailing |-> FALSE]

(* serde_json::to_string(&pkt.layers): one object per layer in stack      *)
(* order, members in the order of the layer's definition, numbers in      *)
(* decimal.                                                               *)
LayerText(l) == <<<<"layertype", StrTok(l.name)>>, <<"val", NumTok(Digits[l.val + 1])>>>>

to_string(layers) == ArrayText([i \in 1..Len(layers) |-> LayerText(layers[i])])

(* JSON values (serde_json::Value) *)
VString(s) == [type |-> "String", s |-> s, n |-> 0]
VNumber(n) == [type |-> "Number", s |-> "", n |-> n]

DigitValue(lit) == (CHOOSE d \in 1..Len(Digits) : Digits[d] = lit) - 1

ParseTok(tok) == IF tok.t = "num" THEN VNumber(DigitValue(tok.lit)) ELSE VString(tok.lit)

MemberKeys(members) == {members[i][1] : i \in 1..Len(members)}

(* the last member written for a key is the one kept *)
ParseObject(members) ==
    [k \in MemberKeys(members) |->
        LET last == CHOOSE i \in 1..Len(members) :
                       /\ members[i][1] = k
                       /\ \A m \in (i + 1)..Len(members) : members[m][1] # k
        IN ParseTok(members[last][2])]

(* mutant: the first document is taken and what follows it is ignored *)
from_str_Value_first_document(text) ==
    IF text.kind = "array"
    THEN Some([i \in 1..Len(text.items) |-> ParseObject(text.items[i])])
    ELSE None

(* serde_json::from_str::<Value>: exactly one document, nothing after it *)
from_str_Value(text) ==
    IF text.kind = "array" /\ ~text.trailing
    THEN Some([i \in 1..Len(text.items) |-> ParseObject(text.items[i])])
    ELSE None

(* mutant: a number and a string that spell the same digits compare equal *)
ScalarEq_coercing(a, b) ==
    LET spell(v) == IF v.type = "Number" THEN Digits[v.n + 1] ELSE v.s
    IN spell(a) = spell(b)

(* PartialEq of serde_json::Value, on arrays of objects of scalars *)
ScalarEq(a, b) ==
    /\ a.type = b.type
    /\ IF a.type = "Number" THEN a.n = b.n ELSE a.s = b.s

ObjectEq(o, p) ==
    /\ DOMAIN o = DOMAIN p
    /\ \A k \in DOMAIN o : ScalarEq(o[k], p[k])

ValueEq(a, b) ==
    /\ Len(a) = Len(b)
    /\ \A i \in 1..Len(a) : ObjectEq(a[i], b[i])

----------------------------------------------------------------------------
(* What standard input may hold: bytes that are not UTF-8, or a text.     *)

Reverse(q) == [i \in 1..Len(q) |-> q[Len(q) + 1 - i]]

(* the same document with the members of every object written backwards *)
Reordered(text) == [text EXCEPT !.items = [i \in 1..Len(@) |-> Reverse(@[i])]]

(* the same document with the number of the last object written as a string *)
Quoted(text) ==
    [text EXCEPT !.items[Len(text.items)][2][2] = StrTok(@.lit)]

Trailing(text) == [text EXCEPT !.trailing = TRUE]

OracleTexts ==
    LET canon == {to_string(ls) : ls \in LayerStacks}
    IN canon \cup {Reordered(t) : t \in canon} \cup {Quoted(t) : t \in canon}
             \cup {Trailing(t) : t \in {c \in canon : Len(c.items) = 1}}
             \cup {EmptyText, GarbageText}

StdinContents == {[utf8 |-> TRUE, text |-> t] : t \in OracleTexts}
                 \cup {[utf8 |-> FALSE, text |-> GarbageText]}

----------------------------------------------------------------------------
(* One invocation of main *)

Stages == <<"read_override", "parse_json", "parse_yaml", "new_interp", "import",
            "eval", "decode", "serialize", "print", "read_stdin", "echo",
            "parse_oracle", "parse_computed", "compare", "drop_interp", "exit">>

InitRun(o) ==
    [pc |-> "load_options", opts |-> o, data |-> None, interp |-> "none",
     x |-> None, pkt |-> None, j |-> None, input |-> None, j0 |-> None,
     j1 |-> None, stdout |-> <<>>, stderr |-> <<>>, failed |-> "none",
     exit_code |-> None, status |-> None, trace |-> <<>>, faults |-> {}]

Did(r, stage) == [r EXCEPT !.trace = Append(@, stage)]

(* the environment's part of a step: the stage was handed an error *)
Observe(r, stage, ok) == IF ok THEN r ELSE [r EXCEPT !.faults = @ \cup {stage}]

(* panic!/unwrap on the main thread: the message goes to stderr and the   *)
(* process is on its way out                                              *)
Panic(r, kind, msg) ==
    [r EXCEPT !.pc = "panicking", !.failed = kind, !.stderr = Append(@, msg)]

(* main.rs:77-78, 85-89: no override, or the file cannot be read: opts stay *)
read_override(r, file) ==
    IF IsSome(r.opts.options_override) /\ IsSome(file)
    THEN Did([r EXCEPT !.pc = "parse_override", !.data = file], "read_override")
    ELSE IF IsSome(r.opts.options_override)
         THEN Did([r EXCEPT !.pc = "new_interp"], "read_override")
         ELSE [r EXCEPT !.pc = "new_interp"]

(* main.rs:79-84 *)
parse_override(r) ==
    LET res == serde_json_from_str_Opts(Get(r.data))
        yml == serde_yaml_from_str_Opts(Get(r.data))
    IN IF IsSome(res)
       THEN Did([r EXCEPT !.pc = "new_interp", !.opts = Get(res), !.data = None],
                "parse_json")
       ELSE IF IsSome(yml)
            THEN Did(Did([r EXCEPT !.pc = "new_interp", !.opts = Get(yml),
                                   !.data = None], "parse_json"), "parse_yaml")
            ELSE Did(Did(Panic([r EXCEPT !.data = None], "ConfigLoadError",
                               [msg |-> "called Result::unwrap() on an Err value"]),
                         "parse_json"), "parse_yaml")

(* mutant: a failed construction is reported but the block still yields 0 *)
new_interpreter_exit0(r, ok) ==
    IF ok
    THEN Did([r EXCEPT !.pc = "import", !.interp = "live"], "new_interp")
    ELSE Did([r EXCEPT !.pc = "block_end", !.failed = "RuntimeInitError",
                       !.exit_code = Some(0),
                       !.stderr = Append(@, [msg |-> "error instantiating embedded Python interpreter"])],
             "new_interp")

(* main.rs:97-105, 159-162 *)
new_interpreter(r, ok) ==
    IF ok
    THEN Did([r EXCEPT !.pc = "import", !.interp = "live"], "new_interp")
    ELSE Did([r EXCEPT !.pc = "block_end", !.failed = "RuntimeInitError",
                       !.exit_code = Some(1),
                       !.stderr = Append(@, [msg |-> "error instantiating embedded Python interpreter"])],
             "new_interp")

(* mutant: all the inputs are read up front, standard input right after the import *)
import_scapy_reads_first(r, ok) ==
    IF ok
    THEN Did([r EXCEPT !.pc = IF r.opts.verify_json THEN "read_stdin" ELSE "eval"], "import")
    ELSE Did(Panic(r, "EvaluationError", [msg |-> "python error"]), "import")

(* mutant: the result of the import is not looked at *)
import_scapy_ignore_error(r, ok) == Did([r EXCEPT !.pc = "eval"], "import")

(* main.rs:115-118 *)
import_scapy(r, ok) ==
    IF ok
    THEN Did([r EXCEPT !.pc = "eval"], "import")
    ELSE Did(Panic(r, "EvaluationError", [msg |-> "python error"]), "import")

(* main.rs:120: format!("bytes({})", &opts.scapy_expr) *)
format_bytes(expr) == <<"bytes(", expr, ")">>

(* What the interpreter may raise for the wrapped expression; only a      *)
(* syntax error quotes the source text it was given.                      *)
PyErrs(expr) ==
    {[type |-> "SyntaxError", text |-> format_bytes(expr)],
     [type |-> "NameError", text |-> <<>>],
     [type |-> "TypeError", text |-> <<>>]}

(* py.eval(..).unwrap().extract().unwrap(): bytes, or the error of either step *)
EvalOutcomes(expr) ==
    {[bytes |-> Some(b), err |-> None] : b \in RawBytes}
    \cup {[bytes |-> None, err |-> Some(e)] : e \in PyErrs(expr)}

(* mutant: a failed evaluation is tried again *)
eval_expr_retry(r, outcome) ==
    IF IsSome(outcome.bytes)
    THEN Did([r EXCEPT !.pc = "decode", !.x = outcome.bytes], "eval")
    ELSE Did([r EXCEPT !.pc = "eval"], "eval")

(* mutant: the panic message does not show the error of the interpreter *)
eval_expr_drops_error(r, outcome) ==
    IF IsSome(outcome.bytes)
    THEN Did([r EXCEPT !.pc = "decode", !.x = outcome.bytes], "eval")
    ELSE Did(Panic(r, "EvaluationError",
                   [msg |-> "called Result::unwrap() on an Err value"]), "eval")

(* main.rs:119-123: the unwrap panics with the Debug text of the PyErr *)
eval_expr(r, outcome) ==
    IF IsSome(outcome.bytes)
    THEN Did([r EXCEPT !.pc = "decode", !.x = outcome.bytes], "eval")
    ELSE Did(Panic(r, "EvaluationError",
                   [msg |-> "called Result::unwrap() on an Err value",
                    err |-> Get(outcome.err)]), "eval")

(* mutant: a failed decoding yields a stack of one zero-filled layer *)
decode_zero_filled(r, decoded) ==
    Did([r EXCEPT !.pc = "serialize",
                  !.pkt = IF IsSome(decoded) THEN decoded ELSE Some(<<Layer(1, 0)>>)],
        "decode")

(* mutant: a failed decoding is taken as a stack without layers *)
decode_unwrap_or_default(r, decoded) ==
    IF IsSome(decoded)
    THEN Did([r EXCEPT !.pc = "serialize", !.pkt = decoded], "decode")
    ELSE Did([r EXCEPT !.pc = "serialize", !.pkt = Some(<<>>),
                       !.stderr = Append(@, [msg |-> "called Option::unwrap() on a None value"])],
             "decode")

(* main.rs:127: decoded is what Ether!().decode(&x) returned *)
decode(r, decoded) ==
    IF IsSome(decoded)
    THEN Did([r EXCEPT !.pc = "serialize", !.pkt = decoded], "decode")
    ELSE Did(Panic(r, "DecodeError",
                   [msg |-> "called Option::unwrap() on a None value"]), "decode")

(* main.rs:128 *)
serialize(r) ==
    Did([r EXCEPT !.pc = "print", !.j = Some(to_string(Get(r.pkt)))], "serialize")

(* mutant: the value is printed only when no verification follows *)
print_json_unless_verify(r) ==
    LET next == IF r.opts.verify_json THEN "read_stdin" ELSE "finish"
    IN IF r.opts.print_json /\ ~r.opts.verify_json
       THEN Did([r EXCEPT !.pc = next, !.stdout = Append(@, Get(r.j))], "print")
       ELSE [r EXCEPT !.pc = next]

(* main.rs:129-132 *)
print_json(r) ==
    LET next == IF r.opts.verify_json THEN "read_stdin" ELSE "finish"
    IN IF r.opts.print_json
       THEN Did([r EXCEPT !.pc = next, !.stdout = Append(@, Get(r.j))], "print")
       ELSE [r EXCEPT !.pc = next]

(* main.rs:136-140 *)
read_stdin(r, stdin) ==
    IF stdin.utf8
    THEN Did([r EXCEPT !.pc = "echo", !.input = Some(stdin.text)], "read_stdin")
    ELSE Did(Panic(r, "OracleReadError",
                   [msg |-> "called Result::unwrap() on an Err value"]), "read_stdin")

(* mutant: the echo of the input goes to standard output *)
echo_input_stdout(r) ==
    IF r.opts.verbose > 0
    THEN Did([r EXCEPT !.pc = "parse_oracle",
                       !.stdout = Append(@, Get(r.input))], "echo")
    ELSE [r EXCEPT !.pc = "parse_oracle"]

(* main.rs:141-143 *)
echo_input(r) ==
    IF r.opts.verbose > 0
    THEN Did([r EXCEPT !.pc = "parse_oracle",
                       !.stderr = Append(@, [msg |-> "Input", input |-> Get(r.input)])],
             "echo")
    ELSE [r EXCEPT !.pc = "parse_oracle"]

(* main.rs:144 *)
parse_oracle(r) ==
    LET v == from_str_Value(Get(r.input))
    IN IF IsSome(v)
       THEN Did([r EXCEPT !.pc = "parse_computed", !.j0 = v], "parse_oracle")
       ELSE Did(Panic(r, "OracleParseError",
                      [msg |-> "called Result::unwrap() on an Err value"]),
                "parse_oracle")

(* main.rs:145 *)
parse_computed(r) ==
    Did([r EXCEPT !.pc = "compare", !.j1 = from_str_Value(Get(r.j))], "parse_computed")

(* mutant: a mismatch is only a warning *)
compare_warn(r) ==
    IF ~ValueEq(Get(r.j0), Get(r.j1))
    THEN Did([r EXCEPT !.pc = "finish",
                       !.stderr = Append(@, [msg |-> "JSON mismatch!",
                                             expected |-> Get(r.j0),
                                             obtained |-> Get(r.j1)])], "compare")
    ELSE Did([r EXCEPT !.pc = "finish"], "compare")

(* mutant: the report names the two values the wrong way round *)
compare_swapped(r) ==
    IF ~ValueEq(Get(r.j0), Get(r.j1))
    THEN Did(Panic(r, "ComparisonMismatch",
                   [msg |-> "JSON mismatch!", expected |-> Get(r.j1),
                    obtained |-> Get(r.j0)]), "compare")
    ELSE Did([r EXCEPT !.pc = "finish"], "compare")

(* mutant: the test of the comparison is inverted *)
compare_inverted(r) ==
    IF ValueEq(Get(r.j0), Get(r.j1))
    THEN Did(Panic(r, "ComparisonMismatch",
                   [msg |-> "JSON mismatch!", expected |-> Get(r.j0),
                    obtained |-> Get(r.j1)]), "compare")
    ELSE Did([r EXCEPT !.pc = "finish"], "compare")

(* main.rs:146-151 *)
compare(r) ==
    IF ~ValueEq(Get(r.j0), Get(r.j1))
    THEN Did(Panic(r, "ComparisonMismatch",
                   [msg |-> "JSON mismatch!", expected |-> Get(r.j0),
                    obtained |-> Get(r.j1)]), "compare")
    ELSE Did([r EXCEPT !.pc = "finish"], "compare")

(* main.rs:155-157: the closure returns, the value of the block is 0 *)
finish(r) == [r EXCEPT !.pc = "block_end", !.exit_code = Some(0)]

(* mutant: the interpreter is leaked, the process exits with it alive *)
block_end_leak(r) == [r EXCEPT !.pc = "exit"]

(* main.rs:164: the block ends and its locals are dropped *)
block_end(r) ==
    IF r.interp = "live"
    THEN Did([r EXCEPT !.pc = "exit", !.interp = "dropped"], "drop_interp")
    ELSE [r EXCEPT !.pc = "exit"]

(* main.rs:167 *)
exit(r) == Did([r EXCEPT !.pc = "exited", !.status = r.exit_code], "exit")

(* A panic ends the process: by unwinding (locals dropped, status 101) or, *)
(* in a build with panic=abort, by abort (nothing dropped, SIGABRT).       *)
PanicStatus == [unwind |-> 101, abort |-> 134]

abort(r, strategy) ==
    [r EXCEPT !.pc = "exited",
              !.status = Some(PanicStatus[strategy]),
              !.interp = IF strategy = "unwind" /\ @ = "live" THEN "dropped" ELSE @]

----------------------------------------------------------------------------
(* The two invocations step together and are handed the same inputs. *)

Together(stage, next) == twin' = IF twin.pc = stage THEN next ELSE twin

Files == {None} \cup {Some(d) : d \in Docs}

Init ==
    \E o \in Opts :
        /\ run = InitRun(o)
        /\ twin = InitRun([o EXCEPT !.verbose = (@ + 1) % (MaxVerbose + 1)])

ReadOverride ==
    /\ run.pc = "load_options"
    /\ \E file \in Files :
        /\ run' = Observe(read_override(run, file), "read_override",
                          IsSome(file) \/ run.opts.options_override = None)
        /\ Together("load_options", Observe(read_override(twin, file), "read_override",
                          IsSome(file) \/ twin.opts.options_override = None))

ParseOverride ==
    /\ run.pc = "parse_override"
    /\ run' = parse_override(run)
    /\ Together("parse_override", parse_override(twin))

NewInterpreter ==
    /\ run.pc = "new_interp"
    /\ \E ok \in BOOLEAN :
        /\ run' = Observe(new_interpreter(run, ok), "new_interp", ok)
        /\ Together("new_interp", Observe(new_interpreter(twin, ok), "new_interp", ok))

ImportScapy ==
    /\ run.pc = "import"
    /\ \E ok \in BOOLEAN :
        /\ run' = Observe(import_scapy(run, ok), "import", ok)
        /\ Together("import", Observe(import_scapy(twin, ok), "import", ok))

EvalExpr ==
    /\ run.pc = "eval"
    /\ \E outcome \in EvalOutcomes(run.opts.scapy_expr) :
        /\ run' = Observe(eval_expr(run, outcome), "eval", IsSome(outcome.bytes))
        /\ Together("eval", Observe(eval_expr(twin, outcome), "eval",
                                    IsSome(outcome.bytes)))

Decode ==
    /\ run.pc = "decode"
    /\ \E decoded \in {None} \cup {Some(ls) : ls \in LayerStacks} :
        /\ run' = Observe(decode(run, decoded), "decode", IsSome(decoded))
        /\ Together("decode", Observe(decode(twin, decoded), "decode", IsSome(decoded)))

Serialize ==
    /\ run.pc = "serialize"
    /\ run' = serialize(run)
    /\ Together("serialize", serialize(twin))

PrintJson ==
    /\ run.pc = "print"
    /\ run' = print_json(run)
    /\ Together("print", print_json(twin))

ReadStdin ==
    /\ run.pc = "read_stdin"
    /\ \E stdin \in StdinContents :
        /\ run' = Observe(read_stdin(run, stdin), "read_stdin", stdin.utf8)
        /\ Together("read_stdin", Observe(read_stdin(twin, stdin), "read_stdin", stdin.utf8))

EchoInput ==
    /\ run.pc = "echo"
    /\ run' = echo_input(run)
    /\ Together("echo", echo_input(twin))

ParseOracle ==
    /\ run.pc = "parse_oracle"
    /\ run' = parse_oracle(run)
    /\ Together("parse_oracle", parse_oracle(twin))

ParseComputed ==
    /\ run.pc = "parse_computed"
    /\ run' = parse_computed(run)
    /\ Together("parse_computed", parse_computed(twin))

Compare ==
    /\ run.pc = "compare"
    /\ run' = compare(run)
    /\ Together("compare", compare(twin))

Finish ==
    /\ run.pc = "finish"
    /\ run' = finish(run)
    /\ Together("finish", finish(twin))

BlockEnd ==
    /\ run.pc = "block_end"
    /\ run' = block_end(run)
    /\ Together("block_end", block_end(twin))

Exit ==
    /\ run.pc = "exit"
    /\ run' = exit(run)
    /\ Together("exit", exit(twin))

Abort ==
    /\ run.pc = "panicking"
    /\ \E strategy \in DOMAIN PanicStatus :
        /\ run' = abort(run, strategy)
        /\ Together("panicking", abort(twin, strategy))

Next ==
    \/ ReadOverride
    \/ ParseOverride
    \/ NewInterpreter
    \/ ImportScapy
    \/ EvalExpr
    \/ Decode
    \/ Serialize
    \/ PrintJson
    \/ ReadStdin
    \/ EchoInput
    \/ ParseOracle
    \/ ParseComputed
    \/ Compare
    \/ Finish
    \/ BlockEnd
    \/ Exit
    \/ Abort

Spec == Init /\ [][Next]_vars

TypeOK ==
    /\ run.pc \in {"load_options", "parse_override", "new_interp", "import", "eval",
                   "decode", "serialize", "print", "read_stdin", "echo",
                   "parse_oracle", "parse_computed", "compare", "finish",
                   "block_end", "exit", "exited", "panicking"}
    /\ run.opts \in Opts
    /\ \A i \in 1..Len(run.trace) : \E s \in 1..Len(Stages) : Stages[s] = run.trace[i]

----------------------------------------------------------------------------
(* Reading the log of stages *)

InTrace(r, stage) == \E i \in 1..Len(r.trace) : r.trace[i] = stage

Count(r, stage) == Cardinality({i \in 1..Len(r.trace) : r.trace[i] = stage})

(* every occurrence of `late` comes after an occurrence of `early` *)
Before(r, early, late) ==
    \A i \in 1..Len(r.trace) :
        r.trace[i] = late => \E h \in 1..(i - 1) : r.trace[h] = early

(* every occurrence of `early` comes before every occurrence of `late` *)
Precedes(r, early, late) ==
    \A i, h \in 1..Len(r.trace) :
        (r.trace[i] = early /\ r.trace[h] = late) => i < h

LastStage(r) == r.trace[Len(r.trace)]

Terminated(r) == r.pc = "exited"

PipelineStages == <<"eval", "decode", "serialize", "compare">>

IsPipelineStage(stage) == \E i \in 1..Len(PipelineStages) : PipelineStages[i] = stage

----------------------------------------------------------------------------
(* C1: the stages evaluate, decode, serialize, compare happen in that     *)
(* order, each at most once and none re-entered after a later one; a run  *)
(* that ends with Done has gone through all of them (compare only when    *)
(* verification is requested).                                            *)
C1_SinglePass ==
    LET done == SelectSeq(run.trace, IsPipelineStage)
    IN /\ Len(done) <= Len(PipelineStages)
       /\ \A i \in 1..Len(done) : i <= Len(PipelineStages) => done[i] = PipelineStages[i]
       /\ Count(run, "eval") <= 1
       /\ run.status = Some(0) =>
             Len(done) = IF run.opts.verify_json THEN 4 ELSE 3

C1_Witness ==
    /\ run.status = Some(0)
    /\ SelectSeq(run.trace, IsPipelineStage) = PipelineStages

(* C2: with verification requested, an oracle value that differs from the *)
(* computed value ends the run in ComparisonMismatch, never in status 0;  *)
(* a verifying run that exits with 0 has compared two equal values.       *)
C2_MismatchIsFatal ==
    /\ (InTrace(run, "compare") /\ Get(run.j0) # Get(run.j1)) =>
          /\ run.failed = "ComparisonMismatch"
          /\ run.pc \in {"panicking", "exited"}
          /\ run.status # Some(0)
    /\ (run.status = Some(0) /\ run.opts.verify_json) =>
          /\ InTrace(run, "compare")
          /\ Get(run.j0) = Get(run.j1)

C2_Witness ==
    /\ Terminated(run)
    /\ run.opts.verify_json
    /\ InTrace(run, "compare")
    /\ Get(run.j0) # Get(run.j1)

(* C3: a failed import, evaluation or decoding ends the run in the Failed *)
(* state of that stage: the failing stage is the last one executed and    *)
(* the exit status is never 0.                                            *)
C3_NoDowngrade ==
    /\ "import" \in run.faults =>
          run.failed = "EvaluationError" /\ LastStage(run) = "import"
    /\ "eval" \in run.faults =>
          run.failed = "EvaluationError" /\ LastStage(run) = "eval"
    /\ "decode" \in run.faults =>
          run.failed = "DecodeError" /\ LastStage(run) = "decode"
    /\ run.failed \in {"EvaluationError", "DecodeError"} =>
          /\ run.pc \in {"panicking", "exited"}
          /\ run.status # Some(0)
          /\ Terminated(run) => IsSome(run.status)
          /\ run.j = None /\ run.stdout = <<>> /\ run.input = None

C3_Witness ==
    /\ Terminated(run)
    /\ run.failed = "DecodeError"
    /\ run.faults = {"decode"}

(* C4: when the interpreter cannot be constructed nothing of the pipeline *)
(* runs (no import, evaluation, decoding, printing, stdin read or         *)
(* comparison) and the process exits with status 1, which is neither the  *)
(* success status nor the status of any other failure.                    *)
AfterConstruction == {"import", "eval", "decode", "serialize", "print", "read_stdin",
                      "echo", "parse_oracle", "parse_computed", "compare"}

C4_RuntimeInitError ==
    /\ "new_interp" \in run.faults =>
          /\ run.failed = "RuntimeInitError"
          /\ \A stage \in AfterConstruction : ~InTrace(run, stage)
          /\ run.stdout = <<>> /\ run.input = None
          /\ Terminated(run) => run.status = Some(1)
    /\ (Terminated(run) /\ run.failed = "none") => run.status = Some(0)
    /\ (Terminated(run) /\ run.failed \notin {"none", "RuntimeInitError"}) =>
          run.status \notin {None, Some(0), Some(1)}

C4_Witness ==
    /\ Terminated(run)
    /\ "new_interp" \in run.faults
    /\ run.status = Some(1)

(* C5: loading the override document never ends the run, whether the file *)
(* cannot be read or its text cannot be parsed.                           *)
C5_ConfigLoadNeverFatal == run.failed # "ConfigLoadError"

(* C6: an override document is accepted even when it sets only some of    *)
(* the options: every option it names takes the value of the document     *)
(* and every other option keeps the value of the invocation.              *)
C6_PartialOverride ==
    [][(run.pc = "parse_override" /\ Get(run.data).syntax \in {"json", "yaml"}) =>
          LET fields == Get(run.data).fields
          IN /\ run'.failed = "none"
             /\ \A k \in OptNames :
                   run'.opts[k] = IF k \in DOMAIN fields THEN fields[k] ELSE run.opts[k]]_vars

(* The nodes at which two values differ: <<i, k>> for member k of the     *)
(* i-th object, <<i>> for an i-th element that only one of them has.      *)
MemberDiffers(o, p, k) ==
    \/ (k \in DOMAIN o) # (k \in DOMAIN p)
    \/ k \in DOMAIN o /\ k \in DOMAIN p /\ o[k] # p[k]

DiffPaths(a, b) ==
    LET n == IF Len(a) < Len(b) THEN Len(a) ELSE Len(b)
        m == IF Len(a) < Len(b) THEN Len(b) ELSE Len(a)
        both == {ik \in (1..n) \X {"layertype", "val"} :
                    MemberDiffers(a[ik[1]], b[ik[1]], ik[2])}
    IN {<<i>> : i \in (n + 1)..m} \cup both

Report(r) == r.stderr[Len(r.stderr)]

C8_StdinReadBeforeEval ==
    (run.opts.verify_json /\ InTrace(run, "eval")) =>
        /\ InTrace(run, "read_stdin")
        /\ Before(run, "read_stdin", "eval")

(* C8 amended: the override document is read before the expression is     *)
(* evaluated, but the oracle document is read from standard input only    *)
(* after the Evaluating, Decoding and Serializing stages, and before the  *)
(* comparison.                                                            *)
C8_StdinReadAfterSerialize ==
    /\ Precedes(run, "read_override", "eval")
    /\ InTrace(run, "eval") => run.data = None
    /\ Before(run, "eval", "read_stdin")
    /\ Before(run, "decode", "read_stdin")
    /\ Before(run, "serialize", "read_stdin")
    /\ Before(run, "read_stdin", "compare")
    /\ InTrace(run, "read_stdin") => run.opts.verify_json /\ IsSome(run.j)

C8_Witness ==
    /\ InTrace(run, "read_override")
    /\ InTrace(run, "read_stdin")
    /\ InTrace(run, "compare")

(* C9: two runs given the same inputs that differ only in the verbosity   *)
(* of the command line are at the same place, have executed the same      *)
(* stages, have the same outcome and exit status and the same standard    *)
(* output; they differ at most by the echo of the input on stderr.        *)
NotEcho(stage) == stage # "echo"

NotInputEcho(m) == m.msg # "Input"

C9_VerbosityNoninterference ==
    /\ twin.pc = run.pc
    /\ SelectSeq(twin.trace, NotEcho) = SelectSeq(run.trace, NotEcho)
    /\ twin.failed = run.failed
    /\ twin.status = run.status
    /\ twin.stdout = run.stdout
    /\ SelectSeq(twin.stderr, NotInputEcho) = SelectSeq(run.stderr, NotInputEcho)

C9_Witness ==
    /\ Terminated(run)
    /\ run.opts.verbose # twin.opts.verbose
    /\ InTrace(run, "echo") # InTrace(twin, "echo")
    /\ run.stdout # <<>>

(* C10: the comparison is reflexive, and a verification run whose         *)
(* standard input is exactly the canonical text it computed is never      *)
(* failed and exits with status 0.                                        *)
C10_Reflexive ==
    /\ IsSome(run.j0) => ValueEq(Get(run.j0), Get(run.j0))
    /\ IsSome(run.j1) => ValueEq(Get(run.j1), Get(run.j1))
    /\ (run.opts.verify_json /\ IsSome(run.input) /\ run.input = run.j) =>
          /\ run.failed = "none"
          /\ run.pc \notin {"panicking"}
          /\ Terminated(run) => run.status = Some(0)

C10_Witness ==
    /\ Terminated(run)
    /\ run.opts.verify_json
    /\ run.input = run.j
    /\ InTrace(run, "compare")
    /\ run.status = Some(0)

(* C11: the comparison is structural equality of the two parsed values:   *)
(* it passes exactly when they have the same length and, position by      *)
(* position, the same keys with values of the same type and content,      *)
(* whatever the order in which the document writes the keys; a number     *)
(* against a string that spells it is a mismatch.                         *)
SameValue(a, b) ==
    /\ Len(a) = Len(b)
    /\ \A i \in 1..Len(a) :
          /\ DOMAIN a[i] = DOMAIN b[i]
          /\ \A k \in DOMAIN a[i] : a[i][k].type = b[i][k].type /\ a[i][k] = b[i][k]

OneDocument(text) == text.kind = "array" /\ ~text.trailing

C12_OracleParseFatal ==
    /\ "read_stdin" \in run.faults =>
          /\ run.failed = "OracleReadError"
          /\ run.pc \in {"panicking", "exited"}
          /\ run.input = None
    /\ (IsSome(run.input) /\ ~OneDocument(Get(run.input))
            /\ run.pc \notin {"echo", "parse_oracle"}) =>
          /\ run.failed = "OracleParseError"
          /\ run.pc \in {"panicking", "exited"}
    /\ run.failed \in {"OracleReadError", "OracleParseError"} =>
          /\ ~InTrace(run, "compare")
          /\ run.j0 = None
          /\ run.status # Some(0)
          /\ Terminated(run) => IsSome(run.status)
    /\ InTrace(run, "compare") =>
          /\ OneDocument(Get(run.input))
          /\ Before(run, "read_stdin", "parse_oracle")
          /\ Before(run, "parse_oracle", "compare")
    /\ (run.opts.verify_json /\ run.status = Some(0)) => InTrace(run, "compare")

C12_Witness ==
    /\ Terminated(run)
    /\ IsSome(run.input)
    /\ Get(run.input).trailing
    /\ run.failed = "OracleParseError"

Mentions(m, expr) ==
    \/ "expr" \in DOMAIN m /\ m.expr = expr
    \/ "err" \in DOMAIN m /\ \E i \in 1..Len(m.err.text) : m.err.text[i] = expr

(* C14 as stated: whenever the evaluation fails, the diagnostic contains  *)
(* the expression that was evaluated.                                     *)
C14_ReportCarriesExpression ==
    "eval" \in run.faults => Mentions(Report(run), run.opts.scapy_expr)

(* C14 amended: whenever the evaluation fails, the diagnostic is the      *)
(* panic message of the unwrap with the error of the interpreter; the     *)
(* harness adds nothing, so the expression shows only when that error     *)
(* quotes its source (a syntax error).                                    *)
C14_ReportIsInterpreterError ==
    "eval" \in run.faults =>
        /\ run.failed = "EvaluationError"
        /\ DOMAIN Report(run) = {"msg", "err"}
        /\ Report(run).err \in PyErrs(run.opts.scapy_expr)
        /\ Mentions(Report(run), run.opts.scapy_expr) <=>
              Report(run).err.type = "SyntaxError"

C14_Witness ==
    /\ Terminated(run)
    /\ "eval" \in run.faults
    /\ Report(run).err.type = "NameError"

(* C15: the expression is evaluated only after the import has completed   *)
(* successfully; a failed import ends the run fatally and the expression  *)
(* is not evaluated.                                                      *)
C15_ImportBeforeEval ==
    /\ (run.pc = "eval" \/ InTrace(run, "eval")) =>
          /\ InTrace(run, "import")
          /\ Before(run, "import", "eval")
          /\ "import" \notin run.faults
    /\ "import" \in run.faults =>
          /\ ~InTrace(run, "eval")
          /\ run.x = None
          /\ run.failed = "EvaluationError"
          /\ run.pc \in {"panicking", "exited"}
          /\ run.status # Some(0)

C15_Witness ==
    /\ Terminated(run)
    /\ "import" \in run.faults
    /\ IsSome(run.status)

(* C16: the interpreter is constructed at most once and torn down at most *)
(* once; a run that exits through the final exit call (status 0 or 1) has *)
(* no live interpreter at that point, the one it constructed having been  *)
(* dropped before the call, and no stage of the pipeline runs after the   *)
(* teardown.                                                              *)
C16_SingleTeardown ==
    /\ Count(run, "new_interp") <= 1
    /\ Count(run, "drop_interp") <= 1
    /\ run.interp = "live" => InTrace(run, "new_interp") /\ ~InTrace(run, "exit")
    /\ InTrace(run, "exit") =>
          /\ run.status \in {Some(0), Some(1)}
          /\ run.interp # "live"
          /\ run.status = Some(0) =>
                run.interp = "dropped" /\ Before(run, "drop_interp", "exit")
          /\ run.status = Some(1) => run.interp = "none"
    /\ \A stage \in AfterConstruction : Precedes(run, stage, "drop_interp")

C16_Witness ==
    /\ Terminated(run)
    /\ run.status = Some(0)
    /\ run.interp = "dropped"
    /\ InTrace(run, "compare")

(* C17: standard output holds the computed value, once, exactly when      *)
(* print_json is set, and nothing otherwise; with verify_json also set it *)
(* is written before standard input is read and before the comparison,    *)
(* whatever their outcome.                                                *)
C17_PrintBeforeVerify ==
    /\ run.stdout # <<>> =>
          /\ run.opts.print_json
          /\ run.stdout = <<Get(run.j)>>
    /\ (run.opts.print_json /\ IsSome(run.j) /\ run.pc # "print") =>
          run.stdout = <<Get(run.j)>>
    /\ (run.opts.print_json /\ InTrace(run, "read_stdin")) =>
          /\ Before(run, "print", "read_stdin")
          /\ Before(run, "print", "parse_oracle")
          /\ Before(run, "print", "compare")

C17_Witness ==
    /\ Terminated(run)
    /\ run.failed = "ComparisonMismatch"
    /\ run.opts.print_json
    /\ run.stdout = <<Get(run.j)>>

====
